---------------------------- MODULE Spec2Model ----------------------------
(***************************************************************************)
(* Model of the learn-rust-async examples: the blocking SimpleExecutor     *)
(* (simple_executor.rs), its hand-written RawWaker vtable over an          *)
(* Arc<(Mutex<bool>, Condvar)>, the AsyncTimerFuture with its background   *)
(* worker thread (custom_waker.rs), and the small futures HelloFuture      *)
(* (pin_and_poll.rs), SimpleCoroutine (simple_coroutine.rs) and MyFuture   *)
(* (basic_future.rs).                                                      *)
(*                                                                         *)
(* Every executor instance e of Execs owns one waiter pair, drives one     *)
(* task and, for an AsyncTimerFuture, has one background worker thread.    *)
(* A task is driven either by SimpleExecutor::block_on or by a direct poll *)
(* loop (the shape of test_pin_and_poll_unpin and test_simple_coroutine),  *)
(* which polls it MaxPolls times with the executor's handle.               *)
(***************************************************************************)
EXTENDS Integers, FiniteSets, Sequences, TLC

\* ------------------------------------------------------------- bounds
\* Polls made by the direct poll loop before it drops the task.
MaxPolls == 3
\* Spurious returns of Condvar::wait allowed per executor.
MaxSpurious == 1
\* Tasks one executor instance drives one after the other (sequential use).
MaxRounds == 2

\* Two independent executor instances, each on its own thread.
Execs == {1, 2}

Kinds == {"Timer", "Hello", "Coroutine", "MyFuture"}
Drivers == {"block_on", "direct"}
CoStates == {"Unresumed", "Returned", "Panicked"}

\* Poll::Ready payloads.
NoOutput == "none"
TimerOutput == "async operation completed"
HelloOutput == "Hello"
CoroutineOutput == "42"
MyFutureOutput == "()"

VARIABLES
    kind,        \* the task variant each instance drives
    driver,      \* block_on or the direct poll loop
    pc,          \* position of the driving (executor) thread
    wpc,         \* position of the background worker thread ("none": no worker)
    flag,        \* pair.0: the Mutex<bool> "woken"
    flagLock,    \* holder of pair.0's mutex: "free", "exec" or "worker"
    strong,      \* Arc strong count of the pair
    completed,   \* SharedState.completed
    waker,       \* SharedState.waker is Some(_)
    stateLock,   \* holder of the SharedState mutex
    stateRefs,   \* Arc strong count of the SharedState
    taken,       \* the worker's state.waker.take() returned Some(_)
    count,       \* HelloFuture.count
    costate,     \* SimpleCoroutine variant
    pollResult,  \* outcome of the latest poll: none, Pending, Ready, panic
    retVal,      \* payload of the latest Poll::Ready
    polls,       \* polls made so far
    wakes,       \* wake invocations made so far
    waits,       \* times the executor blocked in Condvar::wait
    spurious,    \* spurious Condvar wakeups so far
    round,       \* number of the task the instance is driving (1, 2, ...)
    startFlag    \* the flag's value when the current task's round began

vars == <<kind, driver, pc, wpc, flag, flagLock, strong, completed, waker,
          stateLock, stateRefs, taken, count, costate, pollResult, retVal,
          polls, wakes, waits, spurious, round, startFlag>>

taskVars == <<completed, waker, stateLock, stateRefs, taken, count, costate>>
histVars == <<polls, wakes, waits, spurious>>

\* State after SimpleExecutor::new(): the pair holds (false, Condvar) and the
\* executor owns the only reference to it.  The task is not built yet.
Init ==
    /\ kind \in [Execs -> Kinds]
    /\ driver \in [Execs -> Drivers]
    /\ pc = [e \in Execs |-> "new"]
    /\ wpc = [e \in Execs |-> "none"]
    /\ flag = [e \in Execs |-> FALSE]
    /\ flagLock = [e \in Execs |-> "free"]
    /\ strong = [e \in Execs |-> 1]
    /\ completed = [e \in Execs |-> FALSE]
    /\ waker = [e \in Execs |-> FALSE]
    /\ stateLock = [e \in Execs |-> "free"]
    /\ stateRefs = [e \in Execs |-> 0]
    /\ taken = [e \in Execs |-> FALSE]
    /\ count = [e \in Execs |-> 0]
    /\ costate \in [Execs -> CoStates]
    /\ \A e \in Execs : kind[e] # "Coroutine" => costate[e] = "Unresumed"
    /\ pollResult = [e \in Execs |-> "none"]
    /\ retVal = [e \in Execs |-> NoOutput]
    /\ polls = [e \in Execs |-> 0]
    /\ wakes = [e \in Execs |-> 0]
    /\ waits = [e \in Execs |-> 0]
    /\ spurious = [e \in Execs |-> 0]
    /\ round = [e \in Execs |-> 1]
    /\ startFlag = [e \in Execs |-> FALSE]


\* A timer poll that consumes the completion when it reports it.
TimerPollConsuming(c, w) ==
    IF c
    THEN [result |-> "Ready", value |-> TimerOutput,
          completed |-> FALSE, waker |-> w, shares |-> 0]
    ELSE [result |-> "Pending", value |-> NoOutput,
          completed |-> c, waker |-> TRUE,
          shares |-> 1 - (IF w THEN 1 ELSE 0)]

\* A timer poll that stores the handle before it looks at completed.
TimerPollAlwaysStores(c, w) ==
    [result |-> IF c THEN "Ready" ELSE "Pending",
     value |-> IF c THEN TimerOutput ELSE NoOutput,
     completed |-> c, waker |-> TRUE,
     shares |-> 1 - (IF w THEN 1 ELSE 0)]

\* A timer poll that keeps the handles stored by earlier polls alive.
TimerPollAccumulating(c, w) ==
    IF c
    THEN [result |-> "Ready", value |-> TimerOutput,
          completed |-> c, waker |-> w, shares |-> 0]
    ELSE [result |-> "Pending", value |-> NoOutput,
          completed |-> c, waker |-> TRUE, shares |-> 1]

\* ------------------------------------------------- the tasks' poll functions
\* AsyncTimerFuture::poll on SharedState (completed c, waker w = Some?): Ready
\* when completed; else the handle is cloned into state.waker (the clone adds
\* one share, the overwritten Some(_) releases one) and Pending is returned.
TimerPoll(c, w) ==
    IF c
    THEN [result |-> "Ready", value |-> TimerOutput,
          completed |-> c, waker |-> w, shares |-> 0]
    ELSE [result |-> "Pending", value |-> NoOutput,
          completed |-> c, waker |-> TRUE,
          shares |-> 1 - (IF w THEN 1 ELSE 0)]

\* A HelloFuture whose threshold is off by one.
HelloPollOffByOne(n) ==
    LET m == n + 1
    IN  [count |-> m,
         result |-> IF m > 2 THEN "Ready" ELSE "Pending",
         value |-> IF m > 2 THEN HelloOutput ELSE NoOutput]

\* HelloFuture::poll: count += 1, Ready("Hello") once count >= 2.  count is a
\* u32; no run makes the 2^32 polls that would overflow it.
HelloPoll(n) ==
    LET m == n + 1
    IN  [count |-> m,
         result |-> IF m >= 2 THEN "Ready" ELSE "Pending",
         value |-> IF m >= 2 THEN HelloOutput ELSE NoOutput]

\* A coroutine that hands out its result again after completion.
CoroutinePollStale(s) ==
    IF s \in {"Unresumed", "Returned"}
    THEN [state |-> "Returned", result |-> "Ready", value |-> CoroutineOutput]
    ELSE [state |-> s, result |-> "panic", value |-> NoOutput]

\* SimpleCoroutine::poll: Unresumed becomes Returned with Ready(42); in
\* Returned and Panicked the poll panics before touching the state.
CoroutinePoll(s) ==
    IF s = "Unresumed"
    THEN [state |-> "Returned", result |-> "Ready", value |-> CoroutineOutput]
    ELSE [state |-> s, result |-> "panic", value |-> NoOutput]

\* MyFuture::poll: always Ready(()).
MyFuturePoll == [result |-> "Ready", value |-> MyFutureOutput]

\* A block_on that polls once more after Ready.
AfterPollRepoll(d, r, n) ==
    IF r = "panic" THEN "unwind"
    ELSE IF d = "block_on"
         THEN (IF r = "Ready" THEN (IF n < 2 THEN "poll" ELSE "ret")
               ELSE "lock_flag")
         ELSE (IF n < MaxPolls THEN "poll" ELSE "ret")

\* ------------------------------------------------------ the driving thread
\* Where the driver goes with a poll's outcome, n polls having been made.
\* block_on: Ready returns, Pending enters the wait step.  The direct loop
\* polls again until MaxPolls polls are made.  A panic unwinds either.
AfterPoll(d, r, n) ==
    IF r = "panic" THEN "unwind"
    ELSE IF d = "block_on"
         THEN (IF r = "Ready" THEN "ret" ELSE "lock_flag")
         ELSE (IF n < MaxPolls THEN "poll" ELSE "ret")

\* The task is constructed.  AsyncTimerFuture::new shares the SharedState with
\* the worker closure and spawns the worker at once.
NewTask(e) ==
    /\ pc[e] = "new"
    /\ pc' = [pc EXCEPT ![e] = "create_waker"]
    /\ IF kind[e] = "Timer"
       THEN /\ wpc' = [wpc EXCEPT ![e] = "sleep"]
            /\ stateRefs' = [stateRefs EXCEPT ![e] = 2]
       ELSE UNCHANGED <<wpc, stateRefs>>
    /\ UNCHANGED <<round, startFlag, kind, driver, flag, flagLock, strong, completed, waker,
                   stateLock, taken, count, costate, pollResult, retVal>>
    /\ UNCHANGED histVars

\* SimpleExecutor::create_waker: self.pair.clone() turned into a raw handle.
CreateWaker(e) ==
    /\ pc[e] = "create_waker"
    /\ strong' = [strong EXCEPT ![e] = @ + 1]
    /\ pc' = [pc EXCEPT ![e] = "poll"]
    /\ UNCHANGED <<round, startFlag, kind, driver, wpc, flag, flagLock, pollResult, retVal>>
    /\ UNCHANGED taskVars
    /\ UNCHANGED histVars

\* AsyncTimerFuture::poll, first line: self.shared_state.lock().
TimerPollLock(e) ==
    /\ pc[e] = "poll"
    /\ kind[e] = "Timer"
    /\ stateLock[e] = "free"
    /\ stateLock' = [stateLock EXCEPT ![e] = "exec"]
    /\ pc' = [pc EXCEPT ![e] = "in_poll"]
    /\ UNCHANGED <<round, startFlag, kind, driver, wpc, flag, flagLock, strong, completed, waker,
                   stateRefs, taken, count, costate, pollResult, retVal>>
    /\ UNCHANGED histVars

\* AsyncTimerFuture::poll, the body under the lock and the guard's release.
TimerPollBody(e) ==
    /\ pc[e] = "in_poll"
    /\ LET r == TimerPoll(completed[e], waker[e])
       IN  /\ completed' = [completed EXCEPT ![e] = r.completed]
           /\ waker' = [waker EXCEPT ![e] = r.waker]
           /\ strong' = [strong EXCEPT ![e] = @ + r.shares]
           /\ pollResult' = [pollResult EXCEPT ![e] = r.result]
           /\ retVal' = [retVal EXCEPT ![e] = r.value]
           /\ pc' = [pc EXCEPT ![e] = AfterPoll(driver[e], r.result, polls[e] + 1)]
    /\ stateLock' = [stateLock EXCEPT ![e] = "free"]
    /\ polls' = [polls EXCEPT ![e] = @ + 1]
    /\ UNCHANGED <<round, startFlag, kind, driver, wpc, flag, flagLock, stateRefs, taken, count,
                   costate, wakes, waits, spurious>>

HelloPollStep(e) ==
    /\ pc[e] = "poll"
    /\ kind[e] = "Hello"
    /\ LET r == HelloPoll(count[e])
       IN  /\ count' = [count EXCEPT ![e] = r.count]
           /\ pollResult' = [pollResult EXCEPT ![e] = r.result]
           /\ retVal' = [retVal EXCEPT ![e] = r.value]
           /\ pc' = [pc EXCEPT ![e] = AfterPoll(driver[e], r.result, polls[e] + 1)]
    /\ polls' = [polls EXCEPT ![e] = @ + 1]
    /\ UNCHANGED <<round, startFlag, kind, driver, wpc, flag, flagLock, strong, completed, waker,
                   stateLock, stateRefs, taken, costate, wakes, waits, spurious>>

CoroutinePollStep(e) ==
    /\ pc[e] = "poll"
    /\ kind[e] = "Coroutine"
    /\ LET r == CoroutinePoll(costate[e])
       IN  /\ costate' = [costate EXCEPT ![e] = r.state]
           /\ pollResult' = [pollResult EXCEPT ![e] = r.result]
           /\ retVal' = [retVal EXCEPT ![e] = r.value]
           /\ pc' = [pc EXCEPT ![e] = AfterPoll(driver[e], r.result, polls[e] + 1)]
    /\ polls' = [polls EXCEPT ![e] = @ + 1]
    /\ UNCHANGED <<round, startFlag, kind, driver, wpc, flag, flagLock, strong, completed, waker,
                   stateLock, stateRefs, taken, count, wakes, waits, spurious>>

MyFuturePollStep(e) ==
    /\ pc[e] = "poll"
    /\ kind[e] = "MyFuture"
    /\ pollResult' = [pollResult EXCEPT ![e] = MyFuturePoll.result]
    /\ retVal' = [retVal EXCEPT ![e] = MyFuturePoll.value]
    /\ pc' = [pc EXCEPT ![e] = AfterPoll(driver[e], MyFuturePoll.result, polls[e] + 1)]
    /\ polls' = [polls EXCEPT ![e] = @ + 1]
    /\ UNCHANGED <<round, startFlag, kind, driver, wpc, flag, flagLock, strong, wakes, waits, spurious>>
    /\ UNCHANGED taskVars

\* block_on returns (or the direct loop ends, or a panic unwinds): the local
\* handle is dropped (drop_waker) and so is the task, which for the timer
\* releases its owner's share of the SharedState.
Return(e) ==
    /\ pc[e] \in {"ret", "unwind"}
    /\ pc' = [pc EXCEPT ![e] = IF pc[e] = "ret" THEN "done" ELSE "panicked"]
    /\ IF kind[e] = "Timer"
       THEN /\ stateRefs' = [stateRefs EXCEPT ![e] = @ - 1]
            /\ waker' = [waker EXCEPT ![e] = IF stateRefs[e] = 1 THEN FALSE ELSE @]
            /\ strong' = [strong EXCEPT ![e] =
                            @ - 1 - (IF stateRefs[e] = 1 /\ waker[e] THEN 1 ELSE 0)]
       ELSE /\ strong' = [strong EXCEPT ![e] = @ - 1]
            /\ UNCHANGED <<stateRefs, waker>>
    /\ UNCHANGED <<round, startFlag, kind, driver, wpc, flag, flagLock, completed, stateLock,
                   taken, count, costate, pollResult, retVal>>
    /\ UNCHANGED histVars

\* block_on, Pending arm: lock.lock() on the pair's mutex.
LockFlag(e) ==
    /\ pc[e] = "lock_flag"
    /\ flagLock[e] = "free"
    /\ flagLock' = [flagLock EXCEPT ![e] = "exec"]
    /\ pc' = [pc EXCEPT ![e] = "check"]
    /\ UNCHANGED <<round, startFlag, kind, driver, wpc, flag, strong, pollResult, retVal>>
    /\ UNCHANGED taskVars
    /\ UNCHANGED histVars

\* A wait step that never blocks: the executor polls again at once.
ShouldWaitNever(woken) == FALSE

\* A wait step that blocks whatever the flag says.
ShouldWaitAlways(woken) == TRUE

\* The loop condition of the wait step: while !*woken.
ShouldWait(woken) == ~woken

\* A guard kept alive across the loop iteration.
GuardKept == "exec"

\* The holder of the pair's mutex once the Pending arm is left: the guard
\* `woken` is dropped at the end of the arm.
GuardAfterReset == "free"

\* A wait step that leaves the flag as it found it.
FlagNotReset(woken) == woken

\* The flag's value when the wait loop has been left: *woken = false.
FlagAfterWait(woken) == FALSE

\* cvar.wait(woken): the mutex is released and the thread blocks.
CvarWait(e) ==
    /\ pc[e] = "check"
    /\ ShouldWait(flag[e])
    /\ flagLock' = [flagLock EXCEPT ![e] = "free"]
    /\ pc' = [pc EXCEPT ![e] = "waiting"]
    /\ waits' = [waits EXCEPT ![e] = @ + 1]
    /\ UNCHANGED <<round, startFlag, kind, driver, wpc, flag, strong, pollResult, retVal,
                   polls, wakes, spurious>>
    /\ UNCHANGED taskVars

\* The loop is left: *woken = false, the guard is dropped, and block_on polls
\* again.
ResetFlag(e) ==
    /\ pc[e] = "check"
    /\ ~ShouldWait(flag[e])
    /\ flag' = [flag EXCEPT ![e] = FlagAfterWait(@)]
    /\ flagLock' = [flagLock EXCEPT ![e] = GuardAfterReset]
    /\ pc' = [pc EXCEPT ![e] = "poll"]
    /\ UNCHANGED <<round, startFlag, kind, driver, wpc, strong, pollResult, retVal>>
    /\ UNCHANGED taskVars
    /\ UNCHANGED histVars

\* Condvar::wait may return without any notification.
SpuriousWakeup(e) ==
    /\ pc[e] = "waiting"
    /\ spurious[e] < MaxSpurious
    /\ spurious' = [spurious EXCEPT ![e] = @ + 1]
    /\ pc' = [pc EXCEPT ![e] = "wakeup"]
    /\ UNCHANGED <<round, startFlag, kind, driver, wpc, flag, flagLock, strong, pollResult, retVal,
                   polls, wakes, waits>>
    /\ UNCHANGED taskVars

\* Condvar::wait returning: the mutex is acquired again before the loop
\* condition is evaluated.
Reacquire(e) ==
    /\ pc[e] = "wakeup"
    /\ flagLock[e] = "free"
    /\ flagLock' = [flagLock EXCEPT ![e] = "exec"]
    /\ pc' = [pc EXCEPT ![e] = "check"]
    /\ UNCHANGED <<round, startFlag, kind, driver, wpc, flag, strong, pollResult, retVal>>
    /\ UNCHANGED taskVars
    /\ UNCHANGED histVars

\* ---------------------------------------------------- the background worker
\* thread::sleep(duration) is over.
WorkerSleep(e) ==
    /\ wpc[e] = "sleep"
    /\ wpc' = [wpc EXCEPT ![e] = "lock"]
    /\ UNCHANGED <<round, startFlag, kind, driver, pc, flag, flagLock, strong, pollResult, retVal>>
    /\ UNCHANGED taskVars
    /\ UNCHANGED histVars

\* state_clone.lock(): the guard `state` lives to the end of the closure.
WorkerLock(e) ==
    /\ wpc[e] = "lock"
    /\ stateLock[e] = "free"
    /\ stateLock' = [stateLock EXCEPT ![e] = "worker"]
    /\ wpc' = [wpc EXCEPT ![e] = "fire"]
    /\ UNCHANGED <<round, startFlag, kind, driver, pc, flag, flagLock, strong, completed, waker,
                   stateRefs, taken, count, costate, pollResult, retVal>>
    /\ UNCHANGED histVars

\* A worker that takes the handle without recording the completion.
CompletedNotWritten(c) == c

\* The value written to SharedState.completed by the worker.
CompletedAfterFire(c) == TRUE

\* A worker that clones the stored handle and leaves it in place.
WakerLeftStored(w) == w

\* What state.waker.take() leaves in SharedState.waker: None.
WakerAfterTake(w) == FALSE

\* state.completed = true; if let Some(waker) = state.waker.take() the worker
\* goes on to waker.wake(), else it is finished.
WorkerFire(e) ==
    /\ wpc[e] = "fire"
    /\ completed' = [completed EXCEPT ![e] = CompletedAfterFire(@)]
    /\ taken' = [taken EXCEPT ![e] = waker[e]]
    /\ waker' = [waker EXCEPT ![e] = WakerAfterTake(@)]
    /\ wakes' = [wakes EXCEPT ![e] = IF waker[e] THEN @ + 1 ELSE @]
    /\ wpc' = [wpc EXCEPT ![e] = IF waker[e] THEN "wake_lock" ELSE "exit"]
    /\ UNCHANGED <<round, startFlag, kind, driver, pc, flag, flagLock, strong, stateLock, stateRefs,
                   count, costate, pollResult, retVal, polls, waits, spurious>>

\* wake_waker: lock.lock() on the pair's mutex.
WakeLock(e) ==
    /\ wpc[e] = "wake_lock"
    /\ flagLock[e] = "free"
    /\ flagLock' = [flagLock EXCEPT ![e] = "worker"]
    /\ wpc' = [wpc EXCEPT ![e] = "wake_set"]
    /\ UNCHANGED <<round, startFlag, kind, driver, pc, flag, strong, pollResult, retVal>>
    /\ UNCHANGED taskVars
    /\ UNCHANGED histVars

\* A wake that only signals and leaves the flag as it was.
WakeFlagSignalOnly(woken) == woken

\* The value wake_waker leaves in the flag: *woken = true.
WakeFlag(woken) == TRUE

\* A handle built over one process-wide pair instead of the executor's own.
WakeTargetShared(e) == 1

\* The pair a handle of executor e points to: create_waker clones self.pair,
\* and wake_waker recovers it from the raw pointer.
WakeTarget(e) == e

\* wake_waker: *woken = true and the end of the inner block drops the guard.
WakeSet(e) ==
    /\ wpc[e] = "wake_set"
    /\ flag' = [flag EXCEPT ![WakeTarget(e)] = WakeFlag(@)]
    /\ flagLock' = [flagLock EXCEPT ![e] = "free"]
    /\ wpc' = [wpc EXCEPT ![e] = "notify"]
    /\ UNCHANGED <<round, startFlag, kind, driver, pc, strong, pollResult, retVal>>
    /\ UNCHANGED taskVars
    /\ UNCHANGED histVars

\* A worker that wakes the handle a second time.
AfterWakeAgain(n) == IF n < 2 THEN "wake_lock" ELSE "exit"

\* Where the worker goes after its wake call, n wakes having been invoked.
AfterWake(n) == "exit"

\* wake_waker: cvar.notify_one() releases a thread blocked in cvar.wait; then
\* mem::forget(arc) keeps the consumed handle's share of the pair alive.
WakeNotify(e) ==
    /\ wpc[e] = "notify"
    /\ pc' = [pc EXCEPT ![e] = IF @ = "waiting" THEN "wakeup" ELSE @]
    /\ wpc' = [wpc EXCEPT ![e] = AfterWake(wakes[e])]
    /\ wakes' = [wakes EXCEPT ![e] = IF AfterWake(@) = "exit" THEN @ ELSE @ + 1]
    /\ UNCHANGED <<round, startFlag, kind, driver, flag, flagLock, strong, pollResult, retVal,
                   polls, waits, spurious>>
    /\ UNCHANGED taskVars

\* End of the closure: the guard `state` is dropped, then state_clone.
WorkerExit(e) ==
    /\ wpc[e] = "exit"
    /\ stateLock' = [stateLock EXCEPT ![e] = "free"]
    /\ stateRefs' = [stateRefs EXCEPT ![e] = @ - 1]
    /\ waker' = [waker EXCEPT ![e] = IF stateRefs[e] = 1 THEN FALSE ELSE @]
    /\ strong' = [strong EXCEPT ![e] =
                    @ - (IF stateRefs[e] = 1 /\ waker[e] THEN 1 ELSE 0)]
    /\ wpc' = [wpc EXCEPT ![e] = "done"]
    /\ UNCHANGED <<round, startFlag, kind, driver, pc, flag, flagLock, completed, taken, count,
                   costate, pollResult, retVal>>
    /\ UNCHANGED histVars

\* ------------------------------------------------------------ specification
ExecStep(e) ==
    \/ NewTask(e)
    \/ CreateWaker(e)
    \/ TimerPollLock(e)
    \/ TimerPollBody(e)
    \/ HelloPollStep(e)
    \/ CoroutinePollStep(e)
    \/ MyFuturePollStep(e)
    \/ Return(e)
    \/ LockFlag(e)
    \/ CvarWait(e)
    \/ ResetFlag(e)
    \/ Reacquire(e)

WorkerStep(e) ==
    \/ WorkerSleep(e)
    \/ WorkerLock(e)
    \/ WorkerFire(e)
    \/ WakeLock(e)
    \/ WakeSet(e)
    \/ WakeNotify(e)
    \/ WorkerExit(e)

Next ==
    \E e \in Execs :
        \/ ExecStep(e)
        \/ WorkerStep(e)
        \/ SpuriousWakeup(e)

Spec == Init /\ [][Next]_vars

\* block_on takes &self: when a task is over and its worker has finished, the
\* same executor is handed the next task.  The waiter pair (flag, mutex,
\* reference count) is carried over; the task's state and the per-task
\* counters start afresh.
NextRound(e) ==
    /\ pc[e] = "done"
    /\ wpc[e] \in {"none", "done"}
    /\ round[e] < MaxRounds
    /\ round' = [round EXCEPT ![e] = @ + 1]
    /\ startFlag' = [startFlag EXCEPT ![e] = flag[e]]
    /\ \E k \in Kinds, d \in Drivers, c \in CoStates :
          /\ (k # "Coroutine" => c = "Unresumed")
          /\ kind' = [kind EXCEPT ![e] = k]
          /\ driver' = [driver EXCEPT ![e] = d]
          /\ costate' = [costate EXCEPT ![e] = c]
    /\ pc' = [pc EXCEPT ![e] = "new"]
    /\ wpc' = [wpc EXCEPT ![e] = "none"]
    /\ completed' = [completed EXCEPT ![e] = FALSE]
    /\ waker' = [waker EXCEPT ![e] = FALSE]
    /\ stateLock' = [stateLock EXCEPT ![e] = "free"]
    /\ stateRefs' = [stateRefs EXCEPT ![e] = 0]
    /\ taken' = [taken EXCEPT ![e] = FALSE]
    /\ count' = [count EXCEPT ![e] = 0]
    /\ pollResult' = [pollResult EXCEPT ![e] = "none"]
    /\ retVal' = [retVal EXCEPT ![e] = NoOutput]
    /\ polls' = [polls EXCEPT ![e] = 0]
    /\ wakes' = [wakes EXCEPT ![e] = 0]
    /\ waits' = [waits EXCEPT ![e] = 0]
    /\ spurious' = [spurious EXCEPT ![e] = 0]
    /\ UNCHANGED <<flag, flagLock, strong>>

\* The executor that is reused for several tasks in a row.
SeqExecs == {1}

\* Sequential use: one executor and its workers; the other instance is idle.
InitSeq ==
    /\ Init
    /\ \A e \in Execs \ SeqExecs : kind[e] = "MyFuture" /\ driver[e] = "block_on"

NextSeq ==
    \E e \in SeqExecs :
        \/ ExecStep(e)
        \/ WorkerStep(e)
        \/ SpuriousWakeup(e)
        \/ NextRound(e)

SeqSpec == InitSeq /\ [][NextSeq]_vars

\* Both threads of every instance are scheduled fairly; a spurious wakeup is
\* never owed.
FairSpec ==
    /\ Spec
    /\ \A e \in Execs : WF_vars(ExecStep(e)) /\ WF_vars(WorkerStep(e))

TypeOK ==
    /\ kind \in [Execs -> Kinds]
    /\ driver \in [Execs -> Drivers]
    /\ pc \in [Execs -> {"new", "create_waker", "poll", "in_poll", "ret", "unwind",
                         "lock_flag", "check", "waiting", "wakeup", "done",
                         "panicked"}]
    /\ wpc \in [Execs -> {"none", "sleep", "lock", "fire", "wake_lock", "wake_set",
                          "notify", "exit", "done"}]
    /\ flag \in [Execs -> BOOLEAN]
    /\ flagLock \in [Execs -> {"free", "exec", "worker"}]
    /\ strong \in [Execs -> 0..(MaxRounds + 3)]
    /\ completed \in [Execs -> BOOLEAN]
    /\ waker \in [Execs -> BOOLEAN]
    /\ stateLock \in [Execs -> {"free", "exec", "worker"}]
    /\ stateRefs \in [Execs -> 0..2]
    /\ taken \in [Execs -> BOOLEAN]
    /\ count \in [Execs -> 0..MaxPolls]
    /\ costate \in [Execs -> CoStates]
    /\ pollResult \in [Execs -> {"none", "Pending", "Ready", "panic"}]
    /\ polls \in [Execs -> Nat]
    /\ wakes \in [Execs -> Nat]
    /\ waits \in [Execs -> Nat]
    /\ spurious \in [Execs -> 0..MaxSpurious]
    /\ round \in [Execs -> 1..MaxRounds]
    /\ startFlag \in [Execs -> BOOLEAN]


\* ------------------------------------------------------------------ claims
BlockOnTimer(e) == driver[e] = "block_on" /\ kind[e] = "Timer"

\* C1 (no lost wakeup, termination): under fair scheduling of the executor
\* and worker threads, block_on driving an AsyncTimerFuture always returns
\* the timer's payload, whatever the order of the worker's wake and the
\* executor's wait.
C1_NoLostWakeup ==
    \A e \in Execs :
        BlockOnTimer(e) ~> (pc[e] = "done" /\ retVal[e] = TimerOutput)

\* block_on returned although the wake was issued before the executor ever
\* blocked: it never waited on the condition variable.
C1_Witness ==
    \E e \in Execs :
        /\ BlockOnTimer(e)
        /\ pc[e] = "done" /\ retVal[e] = TimerOutput
        /\ wakes[e] = 1 /\ waits[e] = 0


\* C2 (durable wake flag): a wake leaves the flag true; a true flag goes back
\* to false only by the executor's own reset at the end of its wait step; and
\* a wait step that finds the flag set goes on to the next poll without
\* blocking on the condition variable.
C2_DurableWakeFlag ==
    [][\A e \in Execs :
        /\ (wpc[e] = "wake_set" /\ wpc'[e] = "notify" => flag'[e])
        /\ (flag[e] /\ ~flag'[e] => pc[e] = "check" /\ pc'[e] = "poll")
        /\ (pc[e] = "check" /\ flag[e] /\ pc'[e] # pc[e]
              => pc'[e] = "poll" /\ waits'[e] = waits[e])]_vars

\* The executor went through its wait step after the wake and is polling
\* again without ever having blocked.
C2_Witness ==
    \E e \in Execs :
        /\ BlockOnTimer(e)
        /\ pc[e] = "poll" /\ polls[e] = 1
        /\ wakes[e] = 1 /\ waits[e] = 0 /\ ~flag[e]

\* C3 (at-most-one completion): SharedState.completed only ever goes from
\* false to true, and once a poll of the timer has returned Ready every later
\* poll returns Ready with the same payload.
C3_AtMostOneCompletion ==
    [][\A e \in Execs :
        /\ (completed[e] => completed'[e])
        /\ (kind[e] = "Timer" /\ pollResult[e] = "Ready"
              => pollResult'[e] = "Ready" /\ retVal'[e] = retVal[e]
                 /\ retVal[e] = TimerOutput)]_vars

\* The timer was polled again after a poll that returned Ready: no poll ever
\* stored a handle, so each of the polls made found it completed.
C3_Witness ==
    \E e \in Execs :
        /\ kind[e] = "Timer" /\ driver[e] = "direct"
        /\ polls[e] >= 2 /\ pollResult[e] = "Ready"
        /\ wpc[e] = "done" /\ ~taken[e]

\* C4 (NotReady promise): every poll that returns Pending, of any task
\* variant, is eventually followed by a wake of the handle it was given.
C4_NotReadyPromise ==
    \A e \in Execs : (pollResult[e] = "Pending") ~> (wakes[e] >= 1)

\* C5 (wake outside the lock): while the worker is inside its wake call it
\* does not hold the SharedState lock.
C5_WakeOutsideLock ==
    \A e \in Execs :
        wpc[e] \in {"wake_lock", "wake_set", "notify"} => stateLock[e] # "worker"

\* The executor thread is blocked on a lock the worker holds.
ExecWaitsForWorker(e) ==
    \/ pc[e] = "poll" /\ kind[e] = "Timer" /\ stateLock[e] = "worker"
    \/ pc[e] \in {"lock_flag", "wakeup"} /\ flagLock[e] = "worker"

\* The worker thread is blocked on a lock the executor holds.
WorkerWaitsForExec(e) ==
    \/ wpc[e] = "lock" /\ stateLock[e] = "exec"
    \/ wpc[e] = "wake_lock" /\ flagLock[e] = "exec"

\* C6 (deadlock freedom): the executor and the worker are never each blocked
\* on a lock the other holds, and the executor does not hold the flag mutex
\* when it acquires (or holds) the SharedState mutex.
C6_DeadlockFree ==
    \A e \in Execs :
        /\ ~(ExecWaitsForWorker(e) /\ WorkerWaitsForExec(e))
        /\ (pc[e] \in {"poll", "in_poll"} => flagLock[e] # "exec")

\* The worker, holding the SharedState lock, is blocked on the flag mutex the
\* executor holds in its wait step.
C6_Witness ==
    \E e \in Execs :
        /\ BlockOnTimer(e)
        /\ wpc[e] = "wake_lock" /\ stateLock[e] = "worker"
        /\ pc[e] = "check" /\ flagLock[e] = "exec"

\* C7 (completion visible before the wake): when the executor leaves its wait
\* step completed is already true, and a poll of the timer made after the
\* worker's wake was issued returns Ready.
C7_CompletionBeforeWake ==
    [][\A e \in Execs :
        kind[e] = "Timer" =>
            /\ (pc[e] = "check" /\ pc'[e] = "poll" => completed[e])
            /\ (wakes[e] >= 1 /\ polls'[e] = polls[e] + 1
                  => pollResult'[e] = "Ready")]_vars

\* The executor blocked, was woken by the worker, and its second poll
\* returned Ready.
C7_Witness ==
    \E e \in Execs :
        /\ BlockOnTimer(e)
        /\ waits[e] >= 1 /\ wakes[e] = 1
        /\ polls[e] = 2 /\ pollResult[e] = "Ready"

\* C8 (single notification): the worker invokes wake at most once, exactly
\* once if a handle was stored when it fired and never otherwise, and an
\* executor blocked in its wait step returns after that one wake.
C8_SingleNotification ==
    /\ [](\A e \in Execs :
            /\ wakes[e] <= 1
            /\ (wpc[e] \in {"exit", "done"}
                  => wakes[e] = (IF taken[e] THEN 1 ELSE 0)))
    /\ \A e \in Execs :
            (BlockOnTimer(e) /\ pc[e] = "waiting")
                ~> (pc[e] = "done" /\ wakes[e] = 1)

\* block_on returned after blocking, a spurious wakeup and the worker's one
\* wake.
C8_Witness ==
    \E e \in Execs :
        /\ BlockOnTimer(e)
        /\ pc[e] = "done" /\ wpc[e] = "done"
        /\ waits[e] >= 2 /\ spurious[e] >= 1 /\ wakes[e] = 1

\* C9 (advance after completion): a poll of a SimpleCoroutine in Unresumed
\* moves it to Returned and returns Ready(42); a poll in Returned or Panicked
\* panics, returns nothing and leaves the state as it was.
C9_AdvanceAfterCompletion ==
    [][\A e \in Execs :
        (kind[e] = "Coroutine" /\ polls'[e] = polls[e] + 1) =>
            IF costate[e] = "Unresumed"
            THEN /\ costate'[e] = "Returned"
                 /\ pollResult'[e] = "Ready"
                 /\ retVal'[e] = CoroutineOutput
            ELSE /\ costate'[e] = costate[e]
                 /\ pollResult'[e] = "panic"
                 /\ retVal'[e] = NoOutput
                 /\ pc'[e] = "unwind"]_vars

\* A coroutine was polled to completion and then polled again, which
\* panicked.
C9_Witness ==
    \E e \in Execs :
        /\ kind[e] = "Coroutine"
        /\ polls[e] = 2 /\ pollResult[e] = "panic" /\ costate[e] = "Returned"

\* C10 (no leaked share): once block_on has returned, the task is dropped and
\* the worker is finished, the executor's own reference is the only one left
\* to the waiter pair.
C10_NoLeakedShare ==
    \A e \in Execs :
        (pc[e] = "done" /\ wpc[e] \in {"none", "done"}) => strong[e] = 1


\* C11 (idempotent wake): a wake that reaches the pair when no wait step is
\* in progress has no effect on a later wait step of the same executor: the
\* executor passes a wait step only on a wake invoked for the task it is
\* driving at that time.
C11_IdempotentWake ==
    [][\A e \in Execs :
        (pc[e] = "check" /\ pc'[e] = "poll") => wakes[e] >= 1]_vars


\* C12 (executor independence): a wake on a handle of one executor sets that
\* executor's flag and releases only its thread; the other executor's flag,
\* position and task state stay as they were; and two executors running
\* block_on on their own timers at the same time both return the payload.
C12_ExecutorIndependence ==
    /\ [][\A e \in Execs :
            (wpc[e] \in {"wake_set", "notify"} /\ wpc'[e] # wpc[e]) =>
                /\ (wpc[e] = "wake_set" => flag'[e])
                /\ \A o \in Execs \ {e} :
                      /\ flag'[o] = flag[o]
                      /\ pc'[o] = pc[o]
                      /\ completed'[o] = completed[o]
                      /\ waker'[o] = waker[o]
                      /\ stateLock'[o] = stateLock[o]]_vars
    /\ (\A e \in Execs : BlockOnTimer(e))
          ~> (\A e \in Execs : pc[e] = "done" /\ retVal[e] = TimerOutput)

\* Both executors ran block_on on a timer of their own, each blocked, each
\* was woken once by its own worker, and both returned.
C12_Witness ==
    \A e \in Execs :
        /\ BlockOnTimer(e)
        /\ pc[e] = "done" /\ retVal[e] = TimerOutput
        /\ waits[e] >= 1 /\ wakes[e] = 1

\* The worker has fired without finding a stored handle.
FiredWithoutHandle(e) ==
    kind[e] = "Timer" /\ wpc[e] \in {"exit", "done"} /\ ~taken[e]

\* C13 (work starts at construction): when the worker completes before the
\* first poll it finds no handle and invokes no wake; the first poll then
\* returns Ready and stores no handle; and block_on returns after that one
\* poll without entering its wait step.
C13_WorkStartsAtConstruction ==
    /\ [](\A e \in Execs :
            /\ (kind[e] = "Timer" /\ completed[e] /\ polls[e] = 0
                  => ~taken[e] /\ wakes[e] = 0)
            /\ (FiredWithoutHandle(e)
                  => /\ wakes[e] = 0 /\ ~waker[e] /\ waits[e] = 0
                     /\ pollResult[e] \in {"none", "Ready"}
                     /\ pc[e] \notin {"lock_flag", "check", "waiting", "wakeup"}
                     /\ (driver[e] = "block_on" => polls[e] <= 1)))
    /\ [][\A e \in Execs :
            (kind[e] = "Timer" /\ completed[e] /\ polls[e] = 0 /\ polls'[e] = 1)
                => /\ pollResult'[e] = "Ready" /\ retVal'[e] = TimerOutput
                   /\ ~waker'[e] /\ strong'[e] = strong[e]
                   /\ (driver[e] = "block_on" => pc'[e] = "ret")]_vars

\* block_on returned a timer's payload after a single poll, never having
\* waited and with no wake invoked.
C13_Witness ==
    \E e \in Execs :
        /\ BlockOnTimer(e)
        /\ pc[e] = "done" /\ retVal[e] = TimerOutput
        /\ polls[e] = 1 /\ wakes[e] = 0 /\ waits[e] = 0

\* The driver's local handle (block_on's `waker`) is alive.
LocalHandle(e) == pc[e] \notin {"new", "create_waker", "done", "panicked"}

C15_PendingWakeConsumed ==
    \A e \in Execs :
        /\ (completed[e] => ~waker[e])
        /\ (wpc[e] \in {"wake_lock", "wake_set", "notify", "exit", "done"}
              => completed[e])
        /\ (taken[e] => wakes[e] = 1)
        /\ (~taken[e] => wakes[e] = 0)

\* The worker took a stored handle, and a poll made after that returned
\* Ready and stored nothing.
C15_Witness ==
    \E e \in Execs :
        /\ kind[e] = "Timer"
        /\ taken[e] /\ completed[e] /\ ~waker[e]
        /\ pollResult[e] = "Ready"

\* The states of block_on's machine.
Phase(e) ==
    CASE pc[e] \in {"new", "create_waker", "poll", "in_poll"} -> "Polling"
      [] pc[e] \in {"lock_flag", "check", "waiting", "wakeup"} -> "Waiting"
      [] pc[e] \in {"ret", "done"} -> "Done"
      [] OTHER -> "Unwound"

\* C16 (executor state machine): block_on goes from Polling to Done on Ready,
\* from Polling to Waiting on Pending and from Waiting to Polling; it leaves
\* Waiting only with the flag true, which it resets on leaving; a wakeup that
\* finds the flag false goes back to blocking.  (A poll that panics unwinds
\* block_on out of Polling.)
C16_ExecutorStateMachine ==
    [][\A e \in Execs :
        driver[e] = "block_on" =>
            /\ (Phase(e)' # Phase(e) =>
                  \/ /\ Phase(e) = "Polling" /\ Phase(e)' = "Done"
                     /\ pollResult'[e] = "Ready"
                  \/ /\ Phase(e) = "Polling" /\ Phase(e)' = "Waiting"
                     /\ pollResult'[e] = "Pending"
                  \/ /\ Phase(e) = "Waiting" /\ Phase(e)' = "Polling"
                     /\ flag[e] /\ ~flag'[e] /\ pc'[e] = "poll"
                  \/ /\ Phase(e) = "Polling" /\ Phase(e)' = "Unwound"
                     /\ pollResult'[e] = "panic")
            /\ (pc[e] = "check" /\ ~flag[e] /\ pc'[e] # pc[e]
                  => pc'[e] = "waiting")]_vars

\* A spurious wakeup found the flag false and the executor blocked again.
C16_Witness ==
    \E e \in Execs :
        /\ driver[e] = "block_on"
        /\ pc[e] = "waiting" /\ ~flag[e]
        /\ spurious[e] >= 1 /\ waits[e] >= 2

\* C17 (no advance after completion): once a poll made by block_on has
\* returned Ready no further poll is made and that value is what block_on
\* returns; block_on never polls a SimpleCoroutine twice, so a panic can only
\* come from its first poll; and when block_on returns from a SimpleCoroutine
\* it returns 42 after exactly one poll and no wait.
C17_NoAdvanceAfterCompletion ==
    /\ [][\A e \in Execs :
            (driver[e] = "block_on" /\ pollResult[e] = "Ready") =>
                /\ polls'[e] = polls[e]
                /\ pollResult'[e] = "Ready" /\ retVal'[e] = retVal[e]
                /\ pc'[e] \in {"ret", "done"}]_vars
    /\ [](\A e \in Execs :
            (driver[e] = "block_on" /\ kind[e] = "Coroutine") =>
                /\ polls[e] <= 1 /\ waits[e] = 0
                /\ (pc[e] = "done" =>
                      polls[e] = 1 /\ retVal[e] = CoroutineOutput
                      /\ costate[e] = "Returned"))

\* block_on returned 42 from a SimpleCoroutine after one poll.
C17_Witness ==
    \E e \in Execs :
        /\ driver[e] = "block_on" /\ kind[e] = "Coroutine"
        /\ pc[e] = "done" /\ retVal[e] = CoroutineOutput /\ polls[e] = 1

\* C18 (flag false at the start of block_on): the pair starts with the flag
\* false; a block_on (on a timer or any other task) that started with the
\* flag false returns with the flag false; so the task that follows it on
\* the same executor starts with the flag false.
C18_FlagFalseAtStart ==
    /\ [](\A e \in Execs :
            /\ (round[e] = 1 => ~startFlag[e])
            /\ (driver[e] = "block_on" /\ ~startFlag[e]
                    /\ pc[e] \in {"ret", "done"}
                  => ~flag[e]))
    /\ [][\A e \in Execs :
            (driver[e] = "block_on" /\ ~startFlag[e]
                /\ round'[e] = round[e] + 1)
                => ~startFlag'[e] /\ ~flag'[e]]_vars

\* A second task starts with the flag false on an executor whose first
\* block_on was woken by its worker: the pair carries the leaked share of
\* that wake and the flag was reset by the wait step.
C18_Witness ==
    \E e \in Execs :
        /\ round[e] = 2 /\ driver[e] = "block_on"
        /\ pc[e] = "new" /\ ~startFlag[e] /\ ~flag[e]
        /\ strong[e] = 2

\* C19 (bounded polling): one block_on on a timer polls it at most twice:
\* once when the worker completed before the first poll, else one Pending
\* poll and one Ready poll, spurious wakeups or not.
C19_BoundedPolling ==
    \A e \in Execs :
        BlockOnTimer(e) =>
            /\ polls[e] <= 2
            /\ (polls[e] = 2 => pollResult[e] = "Ready" /\ taken[e])
            /\ (pc[e] = "done" => polls[e] = (IF taken[e] THEN 2 ELSE 1))

\* block_on returned after two polls although a spurious wakeup occurred.
C19_Witness ==
    \E e \in Execs :
        /\ BlockOnTimer(e)
        /\ pc[e] = "done" /\ polls[e] = 2 /\ spurious[e] >= 1

\* C20 (state-counter task): every poll of a HelloFuture adds one to count
\* and returns Ready("Hello") exactly when the new count is at least 2; so
\* the first poll of a fresh HelloFuture is Pending, the second is Ready (the
\* busy-poll loop ends there), and every later poll is Ready("Hello") again.
C20_StateCounterTask ==
    /\ [][\A e \in Execs :
            (kind[e] = "Hello" /\ polls'[e] = polls[e] + 1) =>
                /\ count'[e] = count[e] + 1
                /\ (pollResult'[e] = "Ready" <=> count'[e] >= 2)
                /\ (pollResult'[e] = "Pending" <=> count'[e] < 2)
                /\ (pollResult'[e] = "Ready" => retVal'[e] = HelloOutput)]_vars
    /\ [](\A e \in Execs :
            kind[e] = "Hello" =>
                /\ count[e] = polls[e]
                /\ (polls[e] = 1 => pollResult[e] = "Pending")
                /\ (polls[e] >= 2 =>
                      pollResult[e] = "Ready" /\ retVal[e] = HelloOutput))

\* A HelloFuture polled a third time, after completion, returned Ready again.
C20_Witness ==
    \E e \in Execs :
        /\ kind[e] = "Hello" /\ driver[e] = "direct"
        /\ polls[e] = 3 /\ count[e] = 3
        /\ pollResult[e] = "Ready" /\ retVal[e] = HelloOutput

=============================================================================
